---- MODULE Spec2Model ----
(***************************************************************************)
(* Model of the code-review collection server (src/server.js).            *)
(*                                                                         *)
(* The store holds two collections: Code documents (snippets) and Review   *)
(* documents.  Every route handler is an async function; between two       *)
(* awaits a handler runs without interruption, and each await is one       *)
(* operation the store executes atomically.  A handler is therefore cut    *)
(* at its store operations: one action per store operation, each carrying  *)
(* the synchronous code that precedes and follows it up to the next await. *)
(*                                                                         *)
(* JavaScript values: a string is a tuple of one-character strings, so     *)
(* that the regular expression and the length test are computed; a field   *)
(* that the request does not carry is a field the record does not have.    *)
(***************************************************************************)
EXTENDS Integers, Sequences, FiniteSets, Bags, TLC

\* ---------------------------------------------------------------- bounds
\* Number of Code documents the store may hold when a snippet is selected.
MaxSnippets == 2
\* Number of Code documents the store may hold while submissions interleave
\* or request bodies of every shape arrive.
MaxContended == 1
\* Number of POST /api/reviews requests that may be between two awaits.
MaxInFlight == 2

\* ------------------------------------------------------ program constants
\* maxReviews when the request gives none (or a falsy one).
DefaultMaxReviews == 3
\* Shortest comment the handler accepts.
MinCommentLength == 10

\* LineReviewSchema.category.enum
CategoryEnum ==
  { "Bug/Error", "Performance", "Code Style", "Best Practices", "Security",
    "Functionality", "Debugging", "Refactoring", "Other" }

\* --------------------------------------------------------------- strings
\* \s of the regular expression, as far as the alphabet of the model goes.
IsSpace(ch) == ch \in {" ", "\n", "\t"}

\* [^\s@]+ on s[a..b]
PlainRun(s, a, b) ==
  /\ a <= b
  /\ \A k \in a..b : ~IsSpace(s[k]) /\ s[k] # "@"

\* /^[^\s@]+@[^\s@]+\.[^\s@]+$/.test(s)
EmailRegexTest(s) ==
  \E i \in 1..Len(s) : \E j \in (i + 1)..Len(s) :
    /\ s[i] = "@"
    /\ s[j] = "."
    /\ PlainRun(s, 1, i - 1)
    /\ PlainRun(s, i + 1, j - 1)
    /\ PlainRun(s, j + 1, Len(s))

\* Array.prototype.includes on an array of strings
Includes(arr, v) == \E i \in 1..Len(arr) : arr[i] = v

\* ------------------------------------------------------- JS truthiness
\* !r.f for a field holding a string: undefined and "" are falsy.
FalsyStr(r, f) == f \notin DOMAIN r \/ Len(r[f]) = 0
\* !r.f for a field holding a number: undefined and 0 are falsy.
FalsyNum(r, f) == f \notin DOMAIN r \/ r[f] = 0
\* !r.f for a field holding an array: only undefined is falsy.
FalsyArr(r, f) == f \notin DOMAIN r

\* x || 3 on the maxReviews of a request body
MaxReviewsOrDefault(r) ==
  IF FalsyNum(r, "maxReviews") THEN DefaultMaxReviews ELSE r.maxReviews

\* ----------------------------------------------------------- test data
EmailX == <<"x", "@", "a", ".", "b">>
EmailY == <<"y", "@", "a", ".", "b">>
\* no dot after the @: rejected by the regular expression
EmailBad == <<"x", "@", "a">>
Name == <<"N">>
Position == <<"P">>
\* a comment of 10 characters, and one of 5
CommentOk == <<"l", "o", "o", "k", "s", " ", "o", "d", "d", "!">>
CommentShort == <<"h", "m", "m", "m", "!">>

LineOk == [lineNumber |-> 1, comment |-> CommentOk, category |-> "Other"]
LineShort == [lineNumber |-> 2, comment |-> CommentShort, category |-> "Security"]
LineBadCategory == [lineNumber |-> 1, comment |-> CommentOk, category |-> "Nitpick"]
LineNoComment == [lineNumber |-> 3, category |-> "Other"]
LineZero == [lineNumber |-> 0, comment |-> CommentOk, category |-> "Other"]

\* The lineReviews arrays a request may carry.
LineReviewLists ==
  { <<LineOk>>, <<LineOk, LineShort>>, <<LineOk, LineBadCategory>>,
    <<LineNoComment, LineShort>>, <<LineZero>>, <<>> }

\* _id of the i-th Code document is i; an id above the number of documents is
\* the ObjectId of no document.
CodeIds == 1..MaxSnippets

\* ------------------------------------------------------------- documents
\* What findById gives when there is no such document (null).
NullCode ==
  [maxReviews |-> 0, reviewCount |-> 0, isCompleted |-> FALSE, reviewedBy |-> <<>>]

Field(r, f, default) == IF f \in DOMAIN r THEN r[f] ELSE default

\* new Code(fields): CodeSchema's defaults fill the paths that fields lacks.
NewCodeDoc(fields) ==
  [maxReviews  |-> Field(fields, "maxReviews", DefaultMaxReviews),
   reviewCount |-> Field(fields, "reviewCount", 0),
   isCompleted |-> Field(fields, "isCompleted", FALSE),
   reviewedBy  |-> Field(fields, "reviewedBy", <<>>)]

VARIABLES
  codes,      \* the Code collection, in insertion order: _id = index
  reviews,    \* the Review collection: a bag of documents (_id tells equal ones apart)
  inflight,   \* bag of POST /api/reviews requests suspended at an await
  resp,       \* the response on its way to the client, NoResp when none is
  accepted    \* history: the <<codeId, reviewerEmail>> answered 201

vars == <<codes, reviews, inflight, resp, accepted>>

NoInput == [none |-> TRUE]

NoResp ==
  [op |-> "none", at |-> 0, status |-> 0, error |-> "", line |-> 0,
   input |-> NoInput, found |-> FALSE, snap |-> NullCode, code |-> NullCode,
   added |-> 0, total |-> 0]

Init ==
  /\ codes = <<>>
  /\ reviews = EmptyBag
  /\ inflight = EmptyBag
  /\ resp = NoResp
  /\ accepted = {}

\* res.status(status).json(...): one response leaves the server.  The model
\* follows one response at a time: the next is sent once this one is delivered.
Send(r) ==
  /\ resp = NoResp
  /\ resp' = r

\* The client receives the response.
Deliver ==
  /\ resp # NoResp
  /\ resp' = NoResp
  /\ UNCHANGED <<codes, reviews, inflight, accepted>>

\* ------------------------------------------------- POST /api/reviews
\* Status and error text of each res.status(...).json(...) of the handler,
\* named by the source line of the statement.
SubmitStatus(at) ==
  CASE at = 188 -> 400
    [] at = 197 -> 400
    [] at = 203 -> 404
    [] at = 207 -> 400
    [] at = 214 -> 400
    [] at = 226 -> 400
    [] at = 232 -> 400
    [] at = 261 -> 201
    [] at = 273 -> 400
    [] at = 278 -> 500

SubmitError(at) ==
  CASE at = 188 -> "Code ID, reviewer email, name, experience, position, and at least one line review are required"
    [] at = 197 -> "Invalid email format"
    [] at = 203 -> "Code not found"
    [] at = 207 -> "This code has already been reviewed maximum times"
    [] at = 214 -> "You have already reviewed this code"
    [] at = 226 -> "Each line review must have line number, comment, and category"
    [] at = 232 -> "Comment for line ${lineReview.lineNumber} must be at least 10 characters long"
    [] at = 261 -> ""
    [] at = 273 -> "You have already reviewed this code"
    [] at = 278 -> "Failed to submit review"

\* The request bodies the model sends.
FullInput(c, e, l) ==
  [codeId |-> c, reviewerEmail |-> e, reviewerName |-> Name,
   yearsOfExperience |-> 5, position |-> Position, lineReviews |-> l]

Without(r, f) == [g \in DOMAIN r \ {f} |-> r[g]]

InputFields ==
  { "codeId", "reviewerEmail", "reviewerName", "yearsOfExperience",
    "position", "lineReviews" }

PartialInputs(base) ==
  { Without(base, f) : f \in InputFields }
    \cup { [base EXCEPT !.yearsOfExperience = 0],
           [base EXCEPT !.reviewerName = <<>>] }

SubmitInputs ==
  { FullInput(c, e, l) :
      c \in CodeIds, e \in {EmailX, EmailY},
      l \in {<<LineOk>>, <<LineOk, LineBadCategory>>} }
    \cup { FullInput(1, EmailX, l) : l \in LineReviewLists }
    \cup PartialInputs(FullInput(1, EmailX, <<LineOk>>))
    \cup { FullInput(1, EmailBad, <<LineZero>>),
           Without(FullInput(1, EmailBad, <<LineShort>>), "position") }

\* Lines 179-198: the checks made before the first await.  0: all passed.
SyncChecks(in) ==
  IF \/ FalsyNum(in, "codeId")
     \/ FalsyStr(in, "reviewerEmail")
     \/ FalsyStr(in, "reviewerName")
     \/ FalsyNum(in, "yearsOfExperience")
     \/ FalsyStr(in, "position")
     \/ FalsyArr(in, "lineReviews")
     \/ Len(in.lineReviews) = 0
  THEN 188
  ELSE IF ~EmailRegexTest(in.reviewerEmail) THEN 197 ELSE 0

\* !lineReview.category: the category is a string of the enumeration or not
FalsyCategory(lr) == "category" \notin DOMAIN lr \/ lr.category = ""

\* Lines 220-236: the loop over lineReviews, from index i; the first line
\* review that fails decides.  at = 0: all passed.
RECURSIVE LineReviewChecks(_, _)
LineReviewChecks(lrs, i) ==
  IF i > Len(lrs) THEN [at |-> 0, line |-> 0]
  ELSE IF \/ FalsyNum(lrs[i], "lineNumber")
          \/ FalsyStr(lrs[i], "comment")
          \/ FalsyCategory(lrs[i])
       THEN [at |-> 226, line |-> 0]
       ELSE IF Len(lrs[i].comment) < MinCommentLength
            THEN [at |-> 232, line |-> lrs[i].lineNumber]
            ELSE LineReviewChecks(lrs, i + 1)

\* Code.findById(id) on the collection cs: whether a document has that _id.
Exists(cs, id) == id \in 1..Len(cs)
FindById(cs, id) == IF Exists(cs, id) THEN cs[id] ELSE NullCode

\* Lines 201-236: what follows findById, given what it returned.
AfterFindDuplicateFirst(in, found, code) ==
  IF ~found THEN [at |-> 203, line |-> 0]
  ELSE IF Includes(code.reviewedBy, in.reviewerEmail) THEN [at |-> 214, line |-> 0]
  ELSE IF code.isCompleted THEN [at |-> 207, line |-> 0]
  ELSE LineReviewChecks(in.lineReviews, 1)
AfterFind(in, found, code) ==
  IF ~found THEN [at |-> 203, line |-> 0]
  ELSE IF code.isCompleted THEN [at |-> 207, line |-> 0]
  ELSE IF Includes(code.reviewedBy, in.reviewerEmail) THEN [at |-> 214, line |-> 0]
  ELSE LineReviewChecks(in.lineReviews, 1)

SubmitResp(in, at, line, found, snap, code) ==
  [op |-> "submit", at |-> at, status |-> SubmitStatus(at),
   error |-> SubmitError(at), line |-> line, input |-> in, found |-> found,
   snap |-> snap, code |-> code, added |-> 0, total |-> 0]

\* Lines 166-249: the request arrives, the handler runs to findById, the store
\* answers, and the handler runs on to a response or to review.save().
SubmitReview(in) ==
  LET sync == SyncChecks(in) IN
  IF sync # 0
  THEN /\ Send(SubmitResp(in, sync, 0, FALSE, NullCode, NullCode))
       /\ UNCHANGED <<codes, reviews, inflight, accepted>>
  ELSE
    LET found == Exists(codes, in.codeId)
        code == FindById(codes, in.codeId)
        chk == AfterFind(in, found, code)
    IN IF chk.at # 0
       THEN /\ Send(SubmitResp(in, chk.at, chk.line, found, code, code))
            /\ UNCHANGED <<codes, reviews, inflight, accepted>>
       ELSE /\ resp = NoResp
            /\ inflight' =
                 inflight (+) SetToBag({[pc |-> "reviewSave", input |-> in, code |-> code]})
            /\ UNCHANGED <<codes, reviews, resp, accepted>>

\* new Review({...}): the document review.save() writes.
NewReviewDoc(in) ==
  [codeId |-> in.codeId, reviewerEmail |-> in.reviewerEmail,
   lineReviews |-> in.lineReviews]

\* Document validation of review.save() against ReviewSchema and
\* LineReviewSchema: required paths present, category one of the enum.
SchemaValid(doc) ==
  \A i \in 1..Len(doc.lineReviews) :
    LET lr == doc.lineReviews[i] IN
      /\ "lineNumber" \in DOMAIN lr
      /\ ~FalsyStr(lr, "comment")
      /\ ~FalsyCategory(lr)
      /\ lr.category \in CategoryEnum

\* The unique index on { codeId, reviewerEmail }: an insert of doc into rs
\* fails with E11000 when a document with the same pair is there.
NoUniqueIndex(rs, doc) == FALSE
UniqueIndexViolated(rs, doc) ==
  \E r \in BagToSet(rs) :
    r.codeId = doc.codeId /\ r.reviewerEmail = doc.reviewerEmail

\* The catch block: the line that answers an error thrown with this code.
CatchAlways400(errorCode) == 273
CatchAlways500(errorCode) == 278
CatchLine(errorCode) == IF errorCode = 11000 THEN 273 ELSE 278

Replace(bag, old, new) == (bag (-) SetToBag({old})) (+) SetToBag({new})

\* Line 249 (and 270-279 when it throws): review.save().
ReviewSave(p) ==
  LET doc == NewReviewDoc(p.input) IN
  /\ p.pc = "reviewSave"
  /\ IF ~SchemaValid(doc)
     THEN \* ValidationError: no error.code
          /\ Send(SubmitResp(p.input, CatchLine(0), 0, TRUE, p.code, p.code))
          /\ inflight' = inflight (-) SetToBag({p})
          /\ UNCHANGED <<codes, reviews, accepted>>
     ELSE IF UniqueIndexViolated(reviews, doc)
     THEN /\ Send(SubmitResp(p.input, CatchLine(11000), 0, TRUE, p.code, p.code))
          /\ inflight' = inflight (-) SetToBag({p})
          /\ UNCHANGED <<codes, reviews, accepted>>
     ELSE /\ resp = NoResp
          /\ reviews' = reviews (+) SetToBag({doc})
          /\ inflight' = Replace(inflight, p, [p EXCEPT !.pc = "codeSave"])
          /\ UNCHANGED <<codes, resp, accepted>>

\* Lines 252-257: the handler's changes to the document it loaded.
LocalUpdate(code, email) ==
  LET n == code.reviewCount + 1 IN
  [code EXCEPT !.reviewCount = n,
               !.reviewedBy = Append(@, email),
               !.isCompleted = IF n >= code.maxReviews THEN TRUE ELSE @]

\* Line 259, code.save() of a loaded document: the update the store applies
\* holds the changed paths only: $set of reviewCount to the local value,
\* $push of the email onto the stored array, $set of isCompleted when the
\* handler changed it.
StoreSaveWholeDocument(stored, loaded, local) ==
  [stored EXCEPT
     !.reviewCount = local.reviewCount,
     !.reviewedBy = Append(@, local.reviewedBy[Len(local.reviewedBy)]),
     !.isCompleted = local.isCompleted]
StoreSave(stored, loaded, local) ==
  [stored EXCEPT
     !.reviewCount = local.reviewCount,
     !.reviewedBy = Append(@, local.reviewedBy[Len(local.reviewedBy)]),
     !.isCompleted = IF local.isCompleted # loaded.isCompleted
                     THEN local.isCompleted ELSE @]

\* Lines 251-269: the update of the Code document and the 201 response.
CodeSave(p) ==
  LET id == p.input.codeId
      local == LocalUpdate(p.code, p.input.reviewerEmail)
  IN /\ p.pc = "codeSave"
     /\ codes' = [codes EXCEPT ![id] = StoreSave(@, p.code, local)]
     /\ inflight' = inflight (-) SetToBag({p})
     /\ accepted' = accepted \cup {<<id, p.input.reviewerEmail>>}
     /\ Send(SubmitResp(p.input, 261, 0, TRUE, p.code, local))
     /\ UNCHANGED reviews

\* --------------------------------------------- GET /api/codes/random
\* Code.find({ isCompleted: false, reviewedBy: { $ne: email } }): the _ids of
\* the documents that are not completed and hold no element equal to email.
FindNotCompleted(cs, email) == { i \in 1..Len(cs) : ~cs[i].isCompleted }
FindAvailable(cs, email) ==
  { i \in 1..Len(cs) : ~cs[i].isCompleted /\ ~Includes(cs[i].reviewedBy, email) }

RandomInputs == { [email |-> EmailX], [email |-> EmailY], [email |-> <<>>], NoInput }

RandomResp(in, at, status, found, code) ==
  [op |-> "random", at |-> at, status |-> status, error |-> "", line |-> 0,
   input |-> in, found |-> found, snap |-> code, code |-> code,
   added |-> 0, total |-> 0]

\* Lines 133-163.  Math.random() picks any index of availableCodes.
GetRandomCode(in) ==
  /\ UNCHANGED <<codes, reviews, inflight, accepted>>
  /\ IF FalsyStr(in, "email")
     THEN Send([RandomResp(in, 138, 400, FALSE, NullCode)
                  EXCEPT !.error = "Email parameter is required"])
     ELSE LET availableCodes == FindAvailable(codes, in.email) IN
          IF Cardinality(availableCodes) = 0
          THEN Send(RandomResp(in, 148, 404, FALSE, NullCode))
          ELSE \E randomIndex \in availableCodes :
                 Send(RandomResp(in, 158, 200, TRUE, codes[randomIndex]))

\* ------------------------------------------------------ POST /api/codes
Title == <<"T">>
Source == <<"f", "(", ")">>
Language == <<"J", "S">>

\* Request bodies of an administrator who sets a positive quota or none.
PlainAddInputs ==
  { [title |-> Title, code |-> Source, language |-> Language],
    [title |-> Title, code |-> Source, language |-> Language, maxReviews |-> 1],
    [title |-> Title, code |-> Source, maxReviews |-> 1] }

AddInputs ==
  { [title |-> Title, code |-> Source, language |-> Language],
    [title |-> Title, code |-> Source, language |-> Language, maxReviews |-> 0],
    [title |-> Title, code |-> Source, language |-> Language, maxReviews |-> 1],
    [title |-> Title, code |-> Source, language |-> Language, maxReviews |-> -1],
    [title |-> Title, code |-> Source, maxReviews |-> 1],
    [title |-> <<>>, code |-> Source, language |-> Language] }

\* title && code && language
HasTitleAndCode(e) == ~FalsyStr(e, "title") /\ ~FalsyStr(e, "code")
HasContent(e) ==
  ~FalsyStr(e, "title") /\ ~FalsyStr(e, "code") /\ ~FalsyStr(e, "language")

AdminResp(op, in, at, status, error, code, added, total) ==
  [op |-> op, at |-> at, status |-> status, error |-> error, line |-> 0,
   input |-> in, found |-> FALSE, snap |-> NullCode, code |-> code,
   added |-> added, total |-> total]

\* Lines 336-362.
AddCode(in) ==
  IF ~HasContent(in)
  THEN /\ Send(AdminResp("addCode", in, 341, 400,
                         "Title, code, and language are required", NullCode, 0, 0))
       /\ UNCHANGED <<codes, reviews, inflight, accepted>>
  ELSE LET newCode == NewCodeDoc([maxReviews |-> MaxReviewsOrDefault(in)]) IN
       /\ codes' = Append(codes, newCode)
       /\ Send(AdminResp("addCode", in, 354, 201, "", newCode, 0, 0))
       /\ UNCHANGED <<reviews, inflight, accepted>>

\* ------------------------------------------------- POST /api/codes/bulk
EntryOk == [title |-> Title, code |-> Source, language |-> Language]
EntryNoLanguage == [title |-> Title, code |-> Source, maxReviews |-> 1]
\* an entry that carries the counters of a document, as an export of the
\* collection does
EntryCounted ==
  [title |-> Title, code |-> Source, language |-> Language,
   reviewCount |-> 1, isCompleted |-> TRUE]

Entries == {EntryOk, EntryNoLanguage, EntryCounted}

\* Longest codes array of a bulk request.
MaxBulk == 2

BulkArrays(es) == UNION { [1..n -> es] : n \in 0..MaxBulk }

\* Arrays of entries that carry content fields and maxReviews only.
PlainBulkInputs ==
  { [codes |-> a] : a \in BulkArrays({EntryOk, EntryNoLanguage}) } \cup {NoInput}

BulkInputs == { [codes |-> a] : a \in BulkArrays(Entries) } \cup {NoInput}

\* { ...code, maxReviews: code.maxReviews || 3 }
SpreadWithMaxReviews(e) ==
  [f \in DOMAIN e \cup {"maxReviews"} |->
     IF f = "maxReviews" THEN MaxReviewsOrDefault(e) ELSE e[f]]

RECURSIVE MapNewCode(_)
MapNewCode(es) ==
  IF Len(es) = 0 THEN <<>>
  ELSE <<NewCodeDoc(SpreadWithMaxReviews(Head(es)))>> \o MapNewCode(Tail(es))

\* Lines 365-397.
AddCodesBulk(in) ==
  IF FalsyArr(in, "codes") \/ Len(in.codes) = 0
  THEN /\ Send(AdminResp("bulk", in, 370, 400, "Codes array is required", NullCode, 0, 0))
       /\ UNCHANGED <<codes, reviews, inflight, accepted>>
  ELSE LET validCodes == SelectSeq(in.codes, HasContent) IN
       IF Len(validCodes) = 0
       THEN /\ Send(AdminResp("bulk", in, 378, 400, "No valid codes found", NullCode, 0, 0))
            /\ UNCHANGED <<codes, reviews, inflight, accepted>>
       ELSE LET insertedCodes == MapNewCode(validCodes) IN
            /\ codes' = codes \o insertedCodes
            /\ Send(AdminResp("bulk", in, 388, 201, "", NullCode,
                              Len(insertedCodes), Len(in.codes)))
            /\ UNCHANGED <<reviews, inflight, accepted>>

\* ------------------------------------------------------- specification
\* The request bodies of the reviewers of the study: well-formed, for any
\* snippet and either reviewer.
ReviewerInputs ==
  { FullInput(c, e, <<LineOk>>) : c \in CodeIds, e \in {EmailX, EmailY} }

\* The part of the state space a specification explores: at most n Code
\* documents and at most k submissions suspended at an await.
Within(n, k) == Len(codes) <= n /\ BagCardinality(inflight) <= k

\* The study as it is run: snippets added with a positive quota or none,
\* reviewers sending well-formed reviews, handlers interleaved at their awaits.
Next ==
  \/ (\E in \in ReviewerInputs : SubmitReview(in)) /\ Within(MaxContended, MaxInFlight)'
  \/ \E p \in BagToSet(inflight) : ReviewSave(p)
  \/ \E p \in BagToSet(inflight) : CodeSave(p)
  \/ \E in \in RandomInputs : GetRandomCode(in)
  \/ (\E in \in PlainAddInputs : AddCode(in)) /\ Within(MaxContended, MaxInFlight)'
  \/ (\E in \in PlainBulkInputs : AddCodesBulk(in)) /\ Within(MaxContended, MaxInFlight)'
  \/ Deliver

Spec == Init /\ [][Next]_vars

\* One submission at a time, with request bodies of every shape: the handlers
\* as functions of the request and the store.
NextInputs ==
  \/ (\E in \in SubmitInputs : SubmitReview(in)) /\ Within(MaxContended, 1)'
  \/ \E p \in BagToSet(inflight) : ReviewSave(p)
  \/ \E p \in BagToSet(inflight) : CodeSave(p)
  \/ \E in \in RandomInputs : GetRandomCode(in)
  \/ (\E in \in AddInputs : AddCode(in)) /\ Within(MaxContended, 1)'
  \/ (\E in \in BulkInputs : AddCodesBulk(in)) /\ Within(MaxContended, 1)'
  \/ Deliver

SpecInputs == Init /\ [][NextInputs]_vars

\* A catalogue of several snippets, added with any quota, reviewed by one
\* well-formed submission at a time and offered for selection.
NextCatalogue ==
  \/ (\E in \in ReviewerInputs : SubmitReview(in)) /\ Within(MaxSnippets, 1)'
  \/ \E p \in BagToSet(inflight) : ReviewSave(p)
  \/ \E p \in BagToSet(inflight) : CodeSave(p)
  \/ \E in \in RandomInputs : GetRandomCode(in)
  \/ (\E in \in AddInputs : AddCode(in)) /\ Within(MaxSnippets, 1)'
  \/ (\E in \in PlainBulkInputs : AddCodesBulk(in)) /\ Within(MaxSnippets, 1)'
  \/ Deliver

SpecCatalogue == Init /\ [][NextCatalogue]_vars

\* ------------------------------------------- code.save() that throws
\* Lines 259 and 270-279: the store refuses the update of the Code document
\* (connection lost, write error); the error has no code 11000, the catch
\* block logs it and answers 500.  The Review that review.save() wrote stays.
CodeSaveFails(p) ==
  /\ p.pc = "codeSave"
  /\ inflight' = inflight (-) SetToBag({p})
  /\ Send(SubmitResp(p.input, CatchLine(0), 0, TRUE, p.code,
                     LocalUpdate(p.code, p.input.reviewerEmail)))
  /\ UNCHANGED <<codes, reviews, accepted>>

\* A third reviewer.
EmailZ == <<"z", "@", "a", ".", "b">>

\* Well-formed reviews of three reviewers for the first snippet.
RaceInputs == { FullInput(1, e, <<LineOk>>) : e \in {EmailX, EmailY, EmailZ} }

\* Snippets with the default quota or a quota of 2.
RaceAddInputs ==
  { [title |-> Title, code |-> Source, language |-> Language],
    [title |-> Title, code |-> Source, language |-> Language, maxReviews |-> 2] }

\* Three reviewers whose submissions for one snippet interleave at their
\* awaits, and a store that may refuse the update of the snippet.
NextRace ==
  \/ (\E in \in RaceInputs : SubmitReview(in)) /\ Within(MaxContended, MaxInFlight)'
  \/ \E p \in BagToSet(inflight) : ReviewSave(p)
  \/ \E p \in BagToSet(inflight) : CodeSave(p)
  \/ \E p \in BagToSet(inflight) : CodeSaveFails(p)
  \/ (\E in \in RaceAddInputs : AddCode(in)) /\ Within(MaxContended, MaxInFlight)'
  \/ Deliver

SpecRace == Init /\ [][NextRace]_vars

\* One submission at a time, with request bodies of every shape, and a store
\* that may refuse the update of the snippet: a reviewer whose Review was
\* written and whose snippet was not updated may submit again.
NextFaults ==
  \/ (\E in \in SubmitInputs : SubmitReview(in)) /\ Within(MaxContended, 1)'
  \/ \E p \in BagToSet(inflight) : ReviewSave(p)
  \/ \E p \in BagToSet(inflight) : CodeSave(p)
  \/ \E p \in BagToSet(inflight) : CodeSaveFails(p)
  \/ (\E in \in PlainAddInputs : AddCode(in)) /\ Within(MaxContended, 1)'
  \/ Deliver

SpecFaults == Init /\ [][NextFaults]_vars

\* ------------------------------------------- GET /api/reviews/export
\* csvHeader, lines 431-432
CsvHeader ==
  <<"C", "o", "d", "e", " ", "T", "i", "t", "l", "e", ",", "C", "o", "d",
    "e", " ", "L", "a", "n", "g", "u", "a", "g", "e", ",", "C", "o", "d",
    "e", " ", "C", "o", "n", "t", "e", "n", "t", ",", "R", "e", "v", "i",
    "e", "w", "e", "r", " ", "N", "a", "m", "e", ",", "R", "e", "v", "i",
    "e", "w", "e", "r", " ", "E", "m", "a", "i", "l", ",", "Y", "e", "a",
    "r", "s", " ", "o", "f", " ", "E", "x", "p", "e", "r", "i", "e", "n",
    "c", "e", ",", "P", "o", "s", "i", "t", "i", "o", "n", ",", "G", "e",
    "n", "e", "r", "a", "l", " ", "C", "o", "m", "m", "e", "n", "t", ",",
    "L", "i", "n", "e", " ", "N", "u", "m", "b", "e", "r", ",", "L", "i",
    "n", "e", " ", "C", "o", "m", "m", "e", "n", "t", ",", "L", "i", "n",
    "e", " ", "C", "a", "t", "e", "g", "o", "r", "y", ",", "R", "e", "v",
    "i", "e", "w", " ", "D", "a", "t", "e", "\n">>

\* The characters of a category of the enumeration (the model holds a
\* category as one value; the CSV text is made of characters).
CategoryChars(c) ==
  CASE c = "Bug/Error" ->
        <<"B", "u", "g", "/", "E", "r", "r", "o", "r">>
    [] c = "Performance" ->
        <<"P", "e", "r", "f", "o", "r", "m", "a", "n", "c", "e">>
    [] c = "Code Style" ->
        <<"C", "o", "d", "e", " ", "S", "t", "y", "l", "e">>
    [] c = "Best Practices" ->
        <<"B", "e", "s", "t", " ", "P", "r", "a", "c", "t", "i", "c", "e", "s">>
    [] c = "Security" ->
        <<"S", "e", "c", "u", "r", "i", "t", "y">>
    [] c = "Functionality" ->
        <<"F", "u", "n", "c", "t", "i", "o", "n", "a", "l", "i", "t", "y">>
    [] c = "Debugging" ->
        <<"D", "e", "b", "u", "g", "g", "i", "n", "g">>
    [] c = "Refactoring" ->
        <<"R", "e", "f", "a", "c", "t", "o", "r", "i", "n", "g">>
    [] c = "Other" ->
        <<"O", "t", "h", "e", "r">>

\* `${n}` for an integer n
DigitChar(d) ==
  CASE d = 0 -> "0" [] d = 1 -> "1" [] d = 2 -> "2" [] d = 3 -> "3" [] d = 4 -> "4"
    [] d = 5 -> "5" [] d = 6 -> "6" [] d = 7 -> "7" [] d = 8 -> "8" [] d = 9 -> "9"
RECURSIVE NaturalToString(_)
NaturalToString(n) ==
  IF n < 10 THEN <<DigitChar(n)>>
  ELSE NaturalToString(n \div 10) \o <<DigitChar(n % 10)>>
NumberToString(n) ==
  IF n < 0 THEN <<"-">> \o NaturalToString(0 - n) ELSE NaturalToString(n)

\* createdAt.toISOString() for a date within the first second of the epoch,
\* held as its milliseconds.
ToISOString(ms) ==
  <<"1", "9", "7", "0", "-", "0", "1", "-", "0", "1", "T",
    "0", "0", ":", "0", "0", ":", "0", "0", ".">>
    \o <<DigitChar(ms \div 100), DigitChar((ms \div 10) % 10), DigitChar(ms % 10)>>
    \o <<"Z">>

\* s.replace(/"/g, '""')
RECURSIVE ReplaceQuotes(_)
ReplaceQuotes(s) ==
  IF Len(s) = 0 THEN <<>>
  ELSE (IF Head(s) = "\"" THEN <<"\"", "\"">> ELSE <<Head(s)>>)
         \o ReplaceQuotes(Tail(s))

\* s.replace(/\n/g, " ")
RECURSIVE ReplaceNewlines(_)
ReplaceNewlines(s) ==
  IF Len(s) = 0 THEN <<>>
  ELSE (IF Head(s) = "\n" THEN <<" ">> ELSE <<Head(s)>>)
         \o ReplaceNewlines(Tail(s))

\* "${s}" in the row template
Quoted(s) == <<"\"">> \o s \o <<"\"">>

\* a.join(sep) on an array of strings
RECURSIVE Join(_, _)
Join(a, sep) ==
  IF Len(a) = 0 THEN <<>>
  ELSE IF Len(a) = 1 THEN a[1]
  ELSE a[1] \o sep \o Join(Tail(a), sep)

\* Lines 437-440 and the part of the row template that does not depend on
\* the line review: the columns before Line Number.
RowStart(review, code) ==
  LET codeContent == ReplaceNewlines(ReplaceQuotes(code.code))
      generalComment == ReplaceQuotes(Field(review, "generalComment", <<>>))
  IN Join(<<Quoted(code.title), Quoted(code.language), Quoted(codeContent),
            Quoted(review.reviewerName), Quoted(review.reviewerEmail),
            NumberToString(review.yearsOfExperience), Quoted(review.position),
            Quoted(generalComment)>>, <<",">>)

\* Lines 443-456: the row of one line review.
LineRow(review, code, lineReview) ==
  LET lineComment == ReplaceQuotes(lineReview.comment) IN
  Join(<<RowStart(review, code), NumberToString(lineReview.lineNumber),
         Quoted(lineComment), Quoted(CategoryChars(lineReview.category)),
         Quoted(ToISOString(review.createdAt))>>, <<",">>)

\* Lines 459-467: the row of a review without line reviews.
EmptyRow(review, code) ==
  Join(<<RowStart(review, code), Quoted(<<>>), Quoted(<<>>), Quoted(<<>>),
         Quoted(ToISOString(review.createdAt))>>, <<",">>)

\* Lines 442-468: the rows one review adds to csvRows.
RowsOfLineReviewsOnly(review, code) ==
  [i \in 1..Len(review.lineReviews) |-> LineRow(review, code, review.lineReviews[i])]
RowsOf(review, code) ==
  IF Len(review.lineReviews) > 0
  THEN [i \in 1..Len(review.lineReviews) |-> LineRow(review, code, review.lineReviews[i])]
  ELSE <<EmptyRow(review, code)>>

\* Review.find().sort({ createdAt: -1 }): the documents of the collection,
\* latest first.
RECURSIVE SortByCreatedAtDesc(_)
SortByCreatedAtDesc(rs) ==
  IF rs = {} THEN <<>>
  ELSE LET latest == CHOOSE r \in rs : \A q \in rs : q.createdAt <= r.createdAt
       IN <<latest>> \o SortByCreatedAtDesc(rs \ {latest})

\* Lines 436-469: csvRows after the forEach over the sorted reviews, each
\* populated with its Code document.
RECURSIVE CsvRows(_, _)
CsvRows(sorted, cs) ==
  IF Len(sorted) = 0 THEN <<>>
  ELSE RowsOf(Head(sorted), cs[Head(sorted).codeId]) \o CsvRows(Tail(sorted), cs)

\* Line 471
CsvContent(csvRows) == CsvHeader \o Join(csvRows, <<"\n">>)

ExportResp(csvRows) ==
  [op |-> "export", at |-> 478, status |-> 200, error |-> "", line |-> 0,
   input |-> NoInput, found |-> FALSE, snap |-> NullCode, code |-> NullCode,
   added |-> 0, total |-> 0, rows |-> csvRows, csv |-> CsvContent(csvRows)]

\* Lines 424-483.
ExportReviews ==
  /\ Send(ExportResp(CsvRows(SortByCreatedAtDesc(BagToSet(reviews)), codes)))
  /\ UNCHANGED <<codes, reviews, inflight, accepted>>

\* ---- the stores an export is taken of
\* A snippet of two lines that holds a string literal.
SourceTwoLines == <<"a", "=", "\"", "b", "\"", "\n", "f", "(", ")">>
\* A general comment of one line with a quoted word, and one of two lines.
GeneralOneLine == <<"s", "e", "e", " ", "\"", "f", "\"">>
GeneralTwoLines == <<"o", "k", "\n", "b", "u", "t">>
\* A line comment of two lines.
CommentTwoLines == <<"f", "i", "r", "s", "t", " ", "o", "f", "\n", "t", "w", "o">>
LineTwoLines == [lineNumber |-> 2, comment |-> CommentTwoLines, category |-> "Code Style"]
LineTwelve == [lineNumber |-> 12, comment |-> CommentOk, category |-> "Bug/Error"]

\* A Review document as ReviewSchema holds it: the request's fields and
\* createdAt; generalComment is optional, lineReviews may be empty.
ReviewDoc(e, created, l) ==
  [codeId |-> 1, reviewerEmail |-> e, reviewerName |-> Name,
   yearsOfExperience |-> 5, position |-> Position, lineReviews |-> l,
   createdAt |-> created]

WithGeneralComment(doc) ==
  { doc, [f \in DOMAIN doc \cup {"generalComment"} |->
            IF f = "generalComment" THEN GeneralOneLine ELSE doc[f]],
         [f \in DOMAIN doc \cup {"generalComment"} |->
            IF f = "generalComment" THEN GeneralTwoLines ELSE doc[f]] }

\* The Review collections: at most one Review of each of two reviewers (the
\* unique index), with the line reviews and general comments above.
ExportCollections ==
  LET ofX == UNION { WithGeneralComment(ReviewDoc(EmailX, 1, l)) :
                       l \in {<<>>, <<LineOk>>, <<LineOk, LineTwelve>>, <<LineTwoLines>>} }
      ofY == { ReviewDoc(EmailY, 2, l) : l \in {<<>>, <<LineOk>>, <<LineTwelve, LineOk>>} }
  IN { SetToBag(xs \cup ys) :
         xs \in {{}} \cup { {x} : x \in ofX },
         ys \in {{}} \cup { {y} : y \in ofY } }

\* The Code document the Reviews reference, with the reviewers of rs.
ExportCode(src, rs) ==
  LET by == SortByCreatedAtDesc(BagToSet(rs)) IN
  [title |-> Title, code |-> src, language |-> Language,
   maxReviews |-> DefaultMaxReviews, reviewCount |-> Len(by), isCompleted |-> FALSE,
   reviewedBy |-> [i \in 1..Len(by) |-> by[Len(by) + 1 - i].reviewerEmail]]

\* A store with one snippet and its Reviews.
InitExport ==
  /\ reviews \in ExportCollections
  /\ codes \in { <<ExportCode(src, reviews)>> : src \in {Source, SourceTwoLines} }
  /\ inflight = EmptyBag
  /\ resp = NoResp
  /\ accepted = { <<1, r.reviewerEmail>> : r \in BagToSet(reviews) }

\* The export as a function of the store.
NextExport ==
  \/ ExportReviews
  \/ Deliver

SpecExport == InitExport /\ [][NextExport]_vars

\* ------------------------------------------------------ GET /api/stats
\* Code.countDocuments({ isCompleted: v }) on the collection cs
CountIsCompleted(cs, v) == Cardinality({ i \in 1..Len(cs) : cs[i].isCompleted = v })

\* Review.countDocuments() on the collection rs
CountReviews(rs) == BagCardinality(rs)

\* Review.distinct("reviewerEmail") on the collection rs
DistinctReviewerEmail(rs) == { r.reviewerEmail : r \in BagToSet(rs) }

StatsResp(p, uniqueReviewers) ==
  [op |-> "stats", at |-> 291, status |-> 200, error |-> "", line |-> 0,
   input |-> NoInput, found |-> FALSE, snap |-> NullCode, code |-> NullCode,
   added |-> 0, total |-> 0,
   totalCodes |-> p.totalCodes, completedCodes |-> p.completedCodes,
   pendingCodes |-> p.pendingCodes, totalReviews |-> p.totalReviews,
   uniqueReviewers |-> Cardinality(uniqueReviewers)]

\* Line 285: the request arrives and Code.countDocuments() is answered; the
\* handler is suspended at the next count, holding totalCodes.
GetStats ==
  /\ resp = NoResp
  /\ inflight' = inflight (+) SetToBag({[pc |-> "completedCodes",
                                         totalCodes |-> Len(codes)]})
  /\ UNCHANGED <<codes, reviews, resp, accepted>>

\* The handler p with one more constant bound to the count n, suspended at pc.
Bound(p, name, n, pc) ==
  [f \in DOMAIN p \cup {name} |->
     IF f = name THEN n ELSE IF f = "pc" THEN pc ELSE p[f]]

\* Line 286: Code.countDocuments({ isCompleted: true })
StatsCompletedCodes(p) ==
  /\ p.pc = "completedCodes"
  /\ resp = NoResp
  /\ inflight' = Replace(inflight, p,
                         Bound(p, "completedCodes", CountIsCompleted(codes, TRUE),
                               "pendingCodes"))
  /\ UNCHANGED <<codes, reviews, resp, accepted>>

\* Line 287: Code.countDocuments({ isCompleted: false })
StatsPendingCodes(p) ==
  /\ p.pc = "pendingCodes"
  /\ resp = NoResp
  /\ inflight' = Replace(inflight, p,
                         Bound(p, "pendingCodes", CountIsCompleted(codes, FALSE),
                               "totalReviews"))
  /\ UNCHANGED <<codes, reviews, resp, accepted>>

\* Line 288: Review.countDocuments()
StatsTotalReviews(p) ==
  /\ p.pc = "totalReviews"
  /\ resp = NoResp
  /\ inflight' = Replace(inflight, p,
                         Bound(p, "totalReviews", CountReviews(reviews),
                               "uniqueReviewers"))
  /\ UNCHANGED <<codes, reviews, resp, accepted>>

\* Lines 289-297: Review.distinct("reviewerEmail") and the response.
StatsUniqueReviewers(p) ==
  /\ p.pc = "uniqueReviewers"
  /\ inflight' = inflight (-) SetToBag({p})
  /\ Send(StatsResp(p, DistinctReviewerEmail(reviews)))
  /\ UNCHANGED <<codes, reviews, accepted>>

\* Reviews of one reviewer for the first snippet.
StatsReviewInputs == { FullInput(1, EmailX, <<LineOk>>) }

\* Statistics read while a snippet is added or a submission completes one:
\* the handlers interleave at their awaits.
NextStats ==
  \/ GetStats /\ Within(MaxContended, MaxInFlight)'
  \/ \E p \in BagToSet(inflight) : StatsCompletedCodes(p)
  \/ \E p \in BagToSet(inflight) : StatsPendingCodes(p)
  \/ \E p \in BagToSet(inflight) : StatsTotalReviews(p)
  \/ \E p \in BagToSet(inflight) : StatsUniqueReviewers(p)
  \/ (\E in \in StatsReviewInputs : SubmitReview(in)) /\ Within(MaxContended, MaxInFlight)'
  \/ \E p \in BagToSet(inflight) : ReviewSave(p)
  \/ \E p \in BagToSet(inflight) : CodeSave(p)
  \/ (\E in \in PlainAddInputs : AddCode(in)) /\ Within(MaxContended, MaxInFlight)'
  \/ Deliver

SpecStats == Init /\ [][NextStats]_vars

\* ================================================================ claims
Snippets == 1..Len(codes)

\* Number of persisted Reviews that reference snippet c.
RECURSIVE Copies(_)
Copies(ds) ==
  IF ds = {} THEN 0
  ELSE LET d == CHOOSE x \in ds : TRUE IN CopiesIn(d, reviews) + Copies(ds \ {d})
ReviewsOf(c) == Copies({ r \in BagToSet(reviews) : r.codeId = c })

\* A persisted Review of reviewer e for snippet c.
Persisted(c, e) ==
  \E r \in BagToSet(reviews) : r.codeId = c /\ r.reviewerEmail = e

\* Number of submissions for snippet c answered 201.
AcceptedOf(c) == Cardinality({ a \in accepted : a[1] = c })

\* The response of a POST /api/reviews is on its way.
Answered == resp.op = "submit"

\* The outcome that a response line of the submission handler stands for.
Outcome(at) ==
  CASE at = 188 -> "MissingField"
    [] at = 197 -> "InvalidEmail"
    [] at = 203 -> "SnippetNotFound"
    [] at = 207 -> "QuotaExceeded"
    [] at \in {214, 273} -> "DuplicateReview"
    [] at \in {226, 232} -> "InvalidLineReview"
    [] at = 261 -> "Accepted"
    [] at = 278 -> "StoreError"

\* C1 (stated as the claim): in every reachable state the number of persisted
\* Reviews that reference a snippet is at most that snippet's maxReviews.
\* Under Spec every snippet has a positive quota and the requests are
\* well-formed; two reviewers who both read the snippet before either saves
\* both pass the isCompleted check.
C1_QuotaNeverExceeded ==
  \A c \in Snippets : ReviewsOf(c) <= codes[c].maxReviews

\* C2: in every reachable state, no two persisted Reviews have the same
\* snippet and the same reviewerEmail, also when two submissions of one
\* reviewer for one snippet both pass the reviewedBy check before either
\* writes.
C2_OneReviewPerPair ==
  \A r \in BagToSet(reviews) :
    Copies({ q \in BagToSet(reviews) :
               q.codeId = r.codeId /\ q.reviewerEmail = r.reviewerEmail }) = 1

\* C2 witness: a submission that had passed the reviewedBy check on the
\* document it read was refused by the unique index, the Review of the same
\* reviewer for the same snippet being in the collection.
C2_Witness ==
  /\ Answered
  /\ resp.at = 273
  /\ ~Includes(resp.snap.reviewedBy, resp.input.reviewerEmail)
  /\ Persisted(resp.input.codeId, resp.input.reviewerEmail)

\* C3 (stated as the claim): when no submission is in flight, each snippet's
\* reviewCount is the number of its accepted (201-answered) Reviews and its
\* isCompleted is (that number >= maxReviews).
C3_CountersMatchAccepted ==
  inflight = EmptyBag =>
    \A c \in Snippets :
      /\ codes[c].reviewCount = AcceptedOf(c)
      /\ codes[c].isCompleted = (AcceptedOf(c) >= codes[c].maxReviews)

\* C4 (stated as the claim): in every reachable state every snippet has
\* isCompleted = true if and only if reviewCount >= maxReviews.
C4_CompletedIffQuotaReached ==
  \A c \in Snippets :
    codes[c].isCompleted <=> (codes[c].reviewCount >= codes[c].maxReviews)

\* C5 (stated as the claim): in every reachable state every snippet's
\* reviewCount is the number of elements of its reviewedBy, and reviewedBy
\* holds no email twice.
C5_CountIsReviewedBy ==
  \A c \in Snippets :
    /\ codes[c].reviewCount = Len(codes[c].reviewedBy)
    /\ \A i \in 1..Len(codes[c].reviewedBy) : \A j \in 1..Len(codes[c].reviewedBy) :
         codes[c].reviewedBy[i] = codes[c].reviewedBy[j] => i = j

\* The step in which review.save() of the suspended submission p is refused by
\* the unique index and the handler answers.
RefusedByIndex(p) ==
  /\ p.pc = "reviewSave"
  /\ ~Includes(p.code.reviewedBy, p.input.reviewerEmail)
  /\ Persisted(p.input.codeId, p.input.reviewerEmail)
  /\ inflight' = inflight (-) SetToBag({p})
  /\ resp = NoResp
  /\ resp'.input = p.input

\* C6: when a submission that passed the reviewedBy check has its Review write
\* refused by the unique index, its response has the status (400) and the
\* error message of the reviewedBy check's response, not 500, and the step
\* changes neither the Review collection nor any snippet.
C6_IndexRefusalIsDuplicate ==
  [][ \A p \in BagToSet(inflight) :
        RefusedByIndex(p) =>
          /\ resp'.status = 400
          /\ resp'.status = SubmitStatus(214)
          /\ resp'.error = SubmitError(214)
          /\ reviews' = reviews
          /\ codes' = codes ]_vars

\* C6 witness: the response of such a refusal is on its way, and another
\* submission by the same reviewer for the same snippet was accepted or is
\* about to save the snippet.
C6_Witness ==
  /\ Answered
  /\ resp.at = 273
  /\ resp.found
  /\ ~resp.snap.isCompleted
  /\ ~Includes(resp.snap.reviewedBy, resp.input.reviewerEmail)

\* ---- the checks of a submission as the specification words them
Present(in, f) == f \in DOMAIN in

\* Check 1: a required top-level field is absent, or lineReviews is empty.
MissingField(in) ==
  \/ \E f \in InputFields : ~Present(in, f)
  \/ Len(in.lineReviews) = 0

\* Check 6 on one line review: lineNumber (a positive integer), comment (at
\* least 10 characters) and category (of the enumeration).
InvalidLine(lr) ==
  \/ ~Present(lr, "lineNumber") \/ ~Present(lr, "comment") \/ ~Present(lr, "category")
  \/ lr.lineNumber <= 0
  \/ Len(lr.comment) < 10
  \/ lr.category \notin CategoryEnum

InvalidLineReview(in) == \E i \in 1..Len(in.lineReviews) : InvalidLine(in.lineReviews[i])

\* The rejection of the first failing check in the order MissingField,
\* InvalidEmail, SnippetNotFound, QuotaExceeded, DuplicateReview,
\* InvalidLineReview, for the request in and the document findById gave;
\* "Accepted" when no check fails.
FirstFailingCheck(in, found, snap) ==
  IF MissingField(in) THEN "MissingField"
  ELSE IF ~EmailRegexTest(in.reviewerEmail) THEN "InvalidEmail"
  ELSE IF ~found THEN "SnippetNotFound"
  ELSE IF snap.isCompleted THEN "QuotaExceeded"
  ELSE IF Includes(snap.reviewedBy, in.reviewerEmail) THEN "DuplicateReview"
  ELSE IF InvalidLineReview(in) THEN "InvalidLineReview"
  ELSE "Accepted"

\* Every field the request carries is truthy: a field that is present with the
\* value 0 or "" is left to the claim about MissingField.
NoFalsyField(in) ==
  /\ Present(in, "codeId") => in.codeId # 0
  /\ Present(in, "yearsOfExperience") => in.yearsOfExperience # 0
  /\ \A f \in {"reviewerEmail", "reviewerName", "position"} :
       Present(in, f) => Len(in[f]) > 0

\* C7 (stated as the claim): the outcome of a submission is the rejection of
\* the first failing check in the fixed order, and the submission is accepted
\* only if none of the six checks fails.
C7_FirstFailingCheckWins ==
  (Answered /\ NoFalsyField(resp.input)) =>
    LET first == FirstFailingCheck(resp.input, resp.found, resp.snap) IN
      /\ first # "Accepted" => Outcome(resp.at) = first
      /\ Outcome(resp.at) = "Accepted" => first = "Accepted"

\* A request body with every field and one valid line review.
WellFormed(in) ==
  /\ DOMAIN in = InputFields
  /\ in = FullInput(in.codeId, in.reviewerEmail, <<LineOk>>)
  /\ EmailRegexTest(in.reviewerEmail)

\* A snippet with maxReviews = 1 and no review, and the same after the one
\* review of reviewer e.
Fresh1 ==
  [maxReviews |-> 1, reviewCount |-> 0, isCompleted |-> FALSE, reviewedBy |-> <<>>]
Done1(e) ==
  [maxReviews |-> 1, reviewCount |-> 1, isCompleted |-> TRUE, reviewedBy |-> <<e>>]

\* Scenario A, with the outcome `second` for the second submission of X.
ScenarioA(second) ==
  (Answered /\ WellFormed(resp.input) /\ resp.found) =>
    LET x == resp.input.reviewerEmail IN
      \* X's submission on the fresh snippet
      /\ resp.snap = Fresh1 =>
           /\ resp.status = 201
           /\ resp.code.reviewCount = 1
           /\ resp.code.isCompleted
           /\ codes[resp.input.codeId] = Done1(x)
      \* X submits again
      /\ resp.snap = Done1(x) => Outcome(resp.at) = second
      \* Y submits
      /\ (\E y \in {EmailX, EmailY} : y # x /\ resp.snap = Done1(y)) =>
           Outcome(resp.at) = "QuotaExceeded"

\* C8 (the claim as stated): on a snippet with maxReviews = 1, X's valid
\* submission is answered 201 with reviewCount = 1 and isCompleted = true; X's
\* second submission is rejected as a duplicate review; Y's submission is
\* rejected as quota exceeded.
C8_ScenarioA_AsStated == ScenarioA("DuplicateReview")

\* C8 (amended): as above, but X's second submission is rejected as quota
\* exceeded: the snippet is completed, and the isCompleted check comes before
\* the reviewedBy check.
C8_ScenarioA == ScenarioA("QuotaExceeded")

\* C8 witness: X, whose review completed the snippet with maxReviews = 1, has
\* submitted again and the response is on its way.
C8_Witness ==
  /\ Answered
  /\ WellFormed(resp.input)
  /\ resp.found
  /\ resp.snap = Done1(resp.input.reviewerEmail)
  /\ <<resp.input.codeId, resp.input.reviewerEmail>> \in accepted
  /\ resp.status = 400

\* Snippet i is not completed and does not list email in reviewedBy.
Eligible(i, email) ==
  /\ ~codes[i].isCompleted
  /\ \A k \in 1..Len(codes[i].reviewedBy) : codes[i].reviewedBy[k] # email

\* C9: a selection for a present email answers 404 exactly when the store it
\* reads holds no snippet that is not completed and does not list the email,
\* and otherwise answers with such a snippet of that store.
C9_SelectionIsEligible ==
  [][ (resp = NoResp /\ resp'.op = "random" /\ Present(resp'.input, "email")
         /\ Len(resp'.input.email) > 0) =>
        LET email == resp'.input.email IN
          /\ resp'.status \in {200, 404}
          /\ resp'.status = 404 <=> ~\E i \in Snippets : Eligible(i, email)
          /\ resp'.status = 200 =>
               \E i \in Snippets : Eligible(i, email) /\ resp'.code = codes[i] ]_vars

\* C9 witness: a snippet was selected for an email while the store also holds
\* a snippet that is completed or lists that email.
C9_Witness ==
  /\ resp.op = "random"
  /\ resp.status = 200
  /\ \E i \in Snippets : ~Eligible(i, resp.input.email)

\* The answered submission passed checks 1-5 on the document findById gave.
PassedFirstFive ==
  /\ Answered
  /\ SyncChecks(resp.input) = 0
  /\ resp.found
  /\ ~resp.snap.isCompleted
  /\ ~Includes(resp.snap.reviewedBy, resp.input.reviewerEmail)

\* C10 (stated as the claim): a submission that passes checks 1-5 and holds a
\* line review that is invalid (category outside the enumeration, lineNumber
\* or comment missing, comment shorter than 10 characters) is answered 400
\* with the InvalidLineReview outcome, persists no Review and leaves the
\* snippet as it was.
C10_InvalidLineIsClientError ==
  (PassedFirstFive /\ InvalidLineReview(resp.input)) =>
    /\ resp.status = 400
    /\ Outcome(resp.at) = "InvalidLineReview"
    /\ ~Persisted(resp.input.codeId, resp.input.reviewerEmail)
    /\ codes[resp.input.codeId] = resp.snap

\* C11: a snippet whose isCompleted is true keeps it true in every step, also
\* in the step in which a submission that read the snippet before it was
\* completed saves its own, not completed, copy.
C11_CompletedStaysCompleted ==
  [][ \A c \in Snippets : codes[c].isCompleted => codes'[c].isCompleted ]_vars

\* C11 witness: a submission answered 201 whose own copy of the snippet was not
\* completed has saved onto the snippet that another submission had
\* completed, and the snippet is completed.
C11_Witness ==
  /\ Answered
  /\ resp.at = 261
  /\ ~resp.code.isCompleted
  /\ codes[resp.input.codeId].isCompleted

\* C12 (stated as the claim): a snippet's reviewCount never decreases from one
\* state to the next.  Two submissions read reviewCount 0; one saves 1; a
\* third reads 1 and saves 2; the other of the two then saves its own 1.
C12_ReviewCountNeverDecreases ==
  [][ \A c \in Snippets : codes'[c].reviewCount >= codes[c].reviewCount ]_vars

\* A persisted Review of snippet c whose submission did not end in the logged
\* 500: with no submission in flight, a Review whose submission was not
\* answered 201 is one whose code.save() threw.
CountedReviews(c) ==
  { r \in BagToSet(reviews) : r.codeId = c /\ <<c, r.reviewerEmail>> \in accepted }

\* C13 (stated as the claim): with no submission in flight, the reviewer of
\* each persisted Review whose submission did not end in the logged 500 is in
\* the snippet's reviewedBy, and reviewCount counts each of these Reviews.
C13_ReviewAndUpdateAreOneUnit ==
  inflight = EmptyBag =>
    \A c \in Snippets :
      /\ \A r \in CountedReviews(c) : Includes(codes[c].reviewedBy, r.reviewerEmail)
      /\ codes[c].reviewCount >= Cardinality(CountedReviews(c))

\* An entry of a bulk request that has title, code and language.
Qualifies(e) == Present(e, "title") /\ Present(e, "code") /\ Present(e, "language")

\* C14: a bulk request with a non-empty array appends one snippet per entry
\* that has title, code and language, in the order of the array, leaves the
\* snippets that were there as they were, and answers 201 with addedCount =
\* the number of these entries and totalProvided = the length of the array;
\* when no entry has all three it answers "No valid codes found" and the
\* collection is unchanged.
C14_BulkInsertsQualifying ==
  [][ (resp = NoResp /\ resp'.op = "bulk" /\ Present(resp'.input, "codes")
         /\ Len(resp'.input.codes) > 0) =>
        LET provided == resp'.input.codes
            qualifying == SelectSeq(provided, Qualifies)
        IN IF Len(qualifying) = 0
           THEN /\ resp'.status = 400
                /\ resp'.error = "No valid codes found"
                /\ codes' = codes
           ELSE /\ resp'.status = 201
                /\ resp'.added = Len(qualifying)
                /\ resp'.total = Len(provided)
                /\ Len(codes') = Len(codes) + Len(qualifying)
                /\ SubSeq(codes', 1, Len(codes)) = codes
                /\ \A j \in 1..Len(qualifying) :
                     codes'[Len(codes) + j].maxReviews =
                       IF Present(qualifying[j], "maxReviews") /\ qualifying[j].maxReviews # 0
                       THEN qualifying[j].maxReviews ELSE 3 ]_vars

\* C14 witness: a bulk request of two entries, one of them without language,
\* was answered with addedCount 1 and totalProvided 2, and the snippet is in
\* the collection.
C14_Witness ==
  /\ resp.op = "bulk"
  /\ resp.status = 201
  /\ resp.added = 1
  /\ resp.total = 2
  /\ Len(codes) >= 1

\* ---- reading a CSV text back
\* The k-th smallest element of a set of positions.
Kth(S, k) == CHOOSE i \in S : Cardinality({ j \in S : j <= i }) = k

\* Number of double quotes among the first n characters of s.
QuotesBefore(s, n) == Cardinality({ j \in 1..n : s[j] = "\"" })

\* The commas of a CSV record that separate fields: those outside double
\* quotes, that is, after an even number of quotes.
Separators(s) ==
  { i \in 1..Len(s) : s[i] = "," /\ QuotesBefore(s, i - 1) % 2 = 0 }

\* The value of a field: without the enclosing quotes, a doubled quote being
\* one quote.
Unquote(raw) ==
  IF Len(raw) >= 2 /\ raw[1] = "\""
  THEN LET inner == SubSeq(raw, 2, Len(raw) - 1)
           kept == { i \in 1..Len(inner) :
                       inner[i] # "\"" \/ QuotesBefore(inner, i) % 2 = 0 }
       IN [k \in 1..Cardinality(kept) |-> inner[Kth(kept, k)]]
  ELSE raw

\* The fields of one CSV record.
FieldsOf(row) ==
  LET seps == Separators(row)
      n == Cardinality(seps)
  IN [k \in 1..(n + 1) |->
        Unquote(SubSeq(row,
                       IF k = 1 THEN 1 ELSE Kth(seps, k - 1) + 1,
                       IF k = n + 1 THEN Len(row) ELSE Kth(seps, k) - 1))]

\* Number of line breaks of a text.
LineBreaks(s) == Cardinality({ i \in 1..Len(s) : s[i] = "\n" })

\* Sum over the persisted Reviews of max(1, number of lineReviews).
RECURSIVE SumOfRows(_)
SumOfRows(rs) ==
  IF rs = {} THEN 0
  ELSE LET r == CHOOSE x \in rs : TRUE
           n == Len(r.lineReviews)
       IN (IF n > 1 THEN n ELSE 1) + SumOfRows(rs \ {r})
ExpectedRows == SumOfRows(BagToSet(reviews))

\* The response of GET /api/reviews/export is on its way.
Exported == resp.op = "export"

\* C15: the CSV text starts with the header row; the number of data rows is
\* the sum over the persisted Reviews of max(1, number of lineReviews); a
\* Review without line reviews has exactly one row, whose Line Number, Line
\* Comment and Line Category fields are empty.
C15_RowsPerReview ==
  Exported =>
    /\ Len(resp.csv) >= Len(CsvHeader)
    /\ SubSeq(resp.csv, 1, Len(CsvHeader)) = CsvHeader
    /\ Len(resp.rows) = ExpectedRows
    /\ \A r \in BagToSet(reviews) :
         Len(r.lineReviews) = 0 =>
           LET own == { i \in 1..Len(resp.rows) :
                          FieldsOf(resp.rows[i])[5] = r.reviewerEmail }
           IN /\ Cardinality(own) = 1
              /\ \A i \in own :
                   LET fs == FieldsOf(resp.rows[i]) IN
                     Len(fs) = 12 /\ fs[9] = <<>> /\ fs[10] = <<>> /\ fs[11] = <<>>

\* C15 witness: an export of a store that holds a Review without line reviews
\* and a Review with two.
C15_Witness ==
  /\ Exported
  /\ \E r \in BagToSet(reviews) : Len(r.lineReviews) = 0
  /\ \E r \in BagToSet(reviews) : Len(r.lineReviews) = 2

\* C16 (stated as the claim): the CSV text has exactly one line break per
\* boundary between the header and the data rows: the one that ends the
\* header, and one between any two data rows.
C16_OneLinePerRecord ==
  Exported =>
    LineBreaks(resp.csv) = (IF ExpectedRows = 0 THEN 1 ELSE ExpectedRows)

\* The fields the request carries hold a value: a non-zero codeId and
\* non-empty strings; yearsOfExperience is any non-negative integer.
FieldsHoldValues(in) ==
  /\ Present(in, "codeId") => in.codeId # 0
  /\ Present(in, "yearsOfExperience") => in.yearsOfExperience >= 0
  /\ \A f \in {"reviewerEmail", "reviewerName", "position"} :
       Present(in, f) => Len(in[f]) > 0

\* C17 (stated as the claim): a submission is answered with the MissingField
\* rejection exactly when a required top-level field is absent or lineReviews
\* is absent or empty; in particular a well-formed submission with
\* yearsOfExperience = 0 for a snippet that is open to the reviewer is
\* accepted.
C17_MissingFieldExactly ==
  (Answered /\ FieldsHoldValues(resp.input)) =>
    /\ Outcome(resp.at) = "MissingField" <=> MissingField(resp.input)
    /\ ( /\ DOMAIN resp.input = InputFields
         /\ resp.input = [FullInput(resp.input.codeId, resp.input.reviewerEmail, <<LineOk>>)
                             EXCEPT !.yearsOfExperience = 0]
         /\ EmailRegexTest(resp.input.reviewerEmail)
         /\ Exists(codes, resp.input.codeId) )
         => Outcome(resp.at) \in {"Accepted", "QuotaExceeded", "DuplicateReview"}

\* The response lines of the client-facing rejections: MissingField,
\* InvalidEmail, SnippetNotFound, QuotaExceeded, DuplicateReview by the
\* reviewedBy check, InvalidLineReview by the handler's own checks, and
\* DuplicateReview by the unique index.
RejectionLines == {188, 197, 203, 207, 214, 226, 232, 273}

\* The Review collection and the reviewCount, reviewedBy and isCompleted of
\* every snippet are the same after the step as before.
StoreUntouched ==
  /\ reviews' = reviews
  /\ Len(codes') = Len(codes)
  /\ \A c \in Snippets :
       /\ codes'[c].reviewCount = codes[c].reviewCount
       /\ codes'[c].reviewedBy = codes[c].reviewedBy
       /\ codes'[c].isCompleted = codes[c].isCompleted

\* C18: a submission that ends in a client-facing rejection has written
\* nothing: the step in which it is suspended at its first store write and
\* the step that answers the rejection leave the Review collection and every
\* snippet's reviewCount, reviewedBy and isCompleted unchanged, and the
\* rejection is never the answer of a submission that had written its Review.
C18_RejectionWritesNothing ==
  [][ /\ BagCardinality(inflight') > BagCardinality(inflight) => StoreUntouched
      /\ (resp = NoResp /\ resp'.op = "submit" /\ resp'.at \in RejectionLines) =>
           /\ StoreUntouched
           /\ ~\E p \in BagToSet(inflight) :
                 /\ p.pc = "codeSave"
                 /\ p.input = resp'.input
                 /\ inflight' = inflight (-) SetToBag({p}) ]_vars

\* C18 witness: a reviewer whose Review is persisted and whose email is not in
\* the snippet's reviewedBy (the update of the snippet was refused) has
\* submitted again and was rejected by the unique index.
C18_Witness ==
  /\ Answered
  /\ resp.at = 273
  /\ Persisted(resp.input.codeId, resp.input.reviewerEmail)
  /\ ~Includes(codes[resp.input.codeId].reviewedBy, resp.input.reviewerEmail)
  /\ inflight = EmptyBag

\* C19 (stated as the claim): every statistics response has completedCodes +
\* pendingCodes = totalCodes, also when the three counts are taken while a
\* snippet is added or a submission completes a snippet.
C19_CompletedPlusPendingIsTotal ==
  resp.op = "stats" => resp.completedCodes + resp.pendingCodes = resp.totalCodes

\* maxReviews as an entry supplies it, 3 when it is absent or falsy.
SuppliedOrThree(e) ==
  IF Present(e, "maxReviews") /\ e.maxReviews # 0 THEN e.maxReviews ELSE 3

\* The entries that the request answered by r asked to create.
CreatedFrom(r) ==
  IF r.op = "addCode" THEN <<r.input>>
  ELSE IF r.op = "bulk" THEN SelectSeq(r.input.codes, Qualifies)
  ELSE <<>>

\* C20 (stated as the claim): every snippet that a step creates starts with
\* reviewCount = 0, isCompleted = false, an empty reviewedBy and maxReviews
\* as supplied or 3, whatever other fields its entry carries; and a step that
\* changes one of the three fields of a snippet is the save of an accepted
\* submission for that snippet.
C20_CreatedSnippetsStartFresh ==
  [][ /\ \A c \in (Len(codes) + 1)..Len(codes') :
           /\ codes'[c].reviewCount = 0
           /\ codes'[c].isCompleted = FALSE
           /\ codes'[c].reviewedBy = <<>>
           /\ Len(CreatedFrom(resp')) = Len(codes') - Len(codes)
           /\ codes'[c].maxReviews = SuppliedOrThree(CreatedFrom(resp')[c - Len(codes)])
      /\ \A c \in Snippets :
           ( \/ codes'[c].reviewCount # codes[c].reviewCount
             \/ codes'[c].reviewedBy # codes[c].reviewedBy
             \/ codes'[c].isCompleted # codes[c].isCompleted )
           => /\ resp'.op = "submit"
              /\ resp'.at = 261
              /\ resp'.input.codeId = c ]_vars

====
